---- MODULE Spec2Model ----
(***************************************************************************)
(* Model of the Balancer Vault client (class Vault): the lazily created    *)
(* chain connection and contract bindings, the read operations             *)
(* getPoolTokens / queryJoinPool / queryExitPool / queryBatchSwap, and the *)
(* zap step builders getJoinPoolZap / getExitPoolZap / getSwapZap together *)
(* with the ABI layout of the call data they annotate.                     *)
(***************************************************************************)
EXTENDS Integers, Sequences, FiniteSets, TLC

(***************************************************************************)
(* Bounds of the model.                                                    *)
(***************************************************************************)
NumCallers == 3
MaxAssets == 2
MaxAmount == 2
MaxUserDataWords == 3

(***************************************************************************)
(* Program constants.                                                      *)
(***************************************************************************)
ZERO_ADDRESS == 0
EXACT_BPT_IN_FOR_TOKENS_OUT == 0
EXACT_BPT_IN_FOR_ONE_TOKEN_OUT == 1
BPT_IN_FOR_EXACT_TOKENS_OUT == 2
vaultAddress == 100
queryAddress == 101

(***************************************************************************)
(* Small value sets the inputs are drawn from.                             *)
(***************************************************************************)
Callers == 1..NumCallers
Tokens == {11, 12}
Parties == {ZERO_ADDRESS, 21}
PoolIds == {1}
Amounts == 1..MaxAmount
ExitKinds == {0, 1, 2, 3, 99}

RECURSIVE SeqsUpTo(_, _)
SeqsUpTo(S, n) ==
  IF n = 0 THEN {<<>>}
  ELSE LET shorter == SeqsUpTo(S, n - 1)
       IN  shorter \cup {Append(s, x) : s \in {t \in shorter : Len(t) = n - 1}, x \in S}

(***************************************************************************)
(* Values as the program sees them.  A BigNumber is a number or NaN; a     *)
(* decimal string carries the number it spells.                            *)
(***************************************************************************)
BN(n) == [nan |-> FALSE, v |-> n]
NaN == [nan |-> TRUE, v |-> 0]
Str(n) == [t |-> "string", n |-> n]
Undefined == [t |-> "undefined"]
Arr(items) == [t |-> "array", items |-> items]

\* new BigNumber(value)
BigNumber(value) == IF value.t = "string" THEN BN(value.n) ELSE NaN
\* a.minus(b)
minus(a, b) == IF a.nan \/ b.nan THEN NaN ELSE BN(a.v - b.v)
\* bigNumberToUint256String(value)
bigNumberToUint256String(value) == Str(value.v)
\* amounts.map(bigNumberToUint256String)
amountStrings(amounts) == [j \in 1..Len(amounts) |-> bigNumberToUint256String(amounts[j])]
\* amounts.map(amount => new BigNumber(amount))
bigNumbers(items) == [j \in 1..Len(items) |-> BigNumber(items[j])]
\* the number a decimal string puts on the wire
uintOf(s) == s.n
boolWord(b) == IF b THEN 1 ELSE 0

\* getInsertIndex(position): byte offset of a call data word, after the selector
getInsertIndex(position) == 4 + position * 32

(***************************************************************************)
(* ABI encoding.  An argument is a static word, a dynamic array of static  *)
(* words, a byte string (whole words here) or a tuple.  The encoding is a  *)
(* sequence of 32-byte words; each word records which argument it belongs  *)
(* to, so that a byte offset can be compared with the argument it holds.   *)
(***************************************************************************)
AbiWord(name, v) == [k |-> "word", name |-> name, v |-> v]
AbiArray(name, items) == [k |-> "array", name |-> name, items |-> items]
AbiBytes(name, words) == [k |-> "bytes", name |-> name, items |-> words]
AbiTuple(name, items) == [k |-> "tuple", name |-> name, items |-> items]

Word(name, part, i, v) == [name |-> name, part |-> part, i |-> i, v |-> v]

RECURSIVE isDynamic(_)
RECURSIVE encode(_)
RECURSIVE encodeHeads(_, _, _)
RECURSIVE encodeTails(_, _)
RECURSIVE headWords(_, _)

isDynamic(a) ==
  CASE a.k = "word" -> FALSE
    [] a.k = "array" -> TRUE
    [] a.k = "bytes" -> TRUE
    [] a.k = "tuple" -> \E j \in 1..Len(a.items) : isDynamic(a.items[j])

\* number of head words of items j..Len(items) of a tuple
headWords(items, j) ==
  IF j > Len(items) THEN 0
  ELSE (IF isDynamic(items[j]) THEN 1 ELSE Len(encode(items[j]))) + headWords(items, j + 1)

\* heads of items j.. ; tailOff is the word offset of the next tail
encodeHeads(items, j, tailOff) ==
  IF j > Len(items) THEN <<>>
  ELSE IF isDynamic(items[j])
       THEN <<Word(items[j].name, "offset", 0, 32 * tailOff)>>
            \o encodeHeads(items, j + 1, tailOff + Len(encode(items[j])))
       ELSE encode(items[j]) \o encodeHeads(items, j + 1, tailOff)

encodeTails(items, j) ==
  IF j > Len(items) THEN <<>>
  ELSE (IF isDynamic(items[j]) THEN encode(items[j]) ELSE <<>>) \o encodeTails(items, j + 1)

encodeTuple(items) == encodeHeads(items, 1, headWords(items, 1)) \o encodeTails(items, 1)

encode(a) ==
  CASE a.k = "word" -> <<Word(a.name, "value", 0, a.v)>>
    [] a.k = "array" ->
         <<Word(a.name, "length", 0, Len(a.items))>>
         \o [j \in 1..Len(a.items) |-> Word(a.name, "value", j - 1, a.items[j])]
    [] a.k = "bytes" ->
         <<Word(a.name, "length", 0, 32 * Len(a.items))>>
         \o [j \in 1..Len(a.items) |-> Word(a.name, "value", j - 1, a.items[j])]
    [] a.k = "tuple" -> encodeTuple(a.items)

\* abiCoder.encodeFunctionCall(methodAbi, params): 4-byte selector, then the words
encodeFunctionCall(name, params) == [selector |-> name, words |-> encodeTuple(params)]

\* abiCoder.decodeParameter('uint256', bytes): needs one whole word
decodeParameter(words) ==
  IF Len(words) = 0 THEN [ok |-> FALSE, value |-> Str(0)]
  ELSE [ok |-> TRUE, value |-> Str(words[1])]

\* length of the call data in bytes
dataLength(data) == 4 + 32 * Len(data.words)
\* TRUE iff byte offset index is the start of a word of data that holds the
\* given part of the named argument
HoldsAt(data, index, name, part, i) ==
  /\ index >= 4
  /\ (index - 4) % 32 = 0
  /\ (index - 4) \div 32 + 1 <= Len(data.words)
  /\ LET w == data.words[(index - 4) \div 32 + 1]
     IN  w.name = name /\ w.part = part /\ w.i = i
\* 0-based word number of a byte offset
wordNumber(index) == (index - 4) \div 32

(***************************************************************************)
(* State.  client: the caches of the lazy factories and what they built.   *)
(* proc: the position and data of every caller of a read operation.        *)
(* zap: the last zap builder call, its request and what it returned.       *)
(* check: the last checkToken call, its arguments and what it did.         *)
(***************************************************************************)
VARIABLES client, proc, zap, check
vars == <<client, proc, zap, check>>

Ok(value) == [status |-> "ok", value |-> value]
Err(message) == [status |-> "error", error |-> message]

(***************************************************************************)
(* Call data encoders of the Vault.                                        *)
(***************************************************************************)
amountWords(amounts) == [j \in 1..Len(amounts) |-> uintOf(bigNumberToUint256String(amounts[j]))]

encodeJoinPool(args) ==
  encodeFunctionCall("joinPool", <<
    AbiWord("poolId", args.poolId),
    AbiWord("sender", args.sender),
    AbiWord("recipient", args.recipient),
    AbiTuple("request", <<
      AbiArray("assets", args.request.assets),
      AbiArray("maxAmountsIn", amountWords(args.request.maxAmountsIn)),
      AbiBytes("userData", args.request.userData),
      AbiWord("fromInternalBalance", boolWord(args.request.fromInternalBalance))>>)>>)

encodeExitPool(args) ==
  encodeFunctionCall("exitPool", <<
    AbiWord("poolId", args.poolId),
    AbiWord("sender", args.sender),
    AbiWord("recipient", args.recipient),
    AbiTuple("request", <<
      AbiArray("assets", args.request.assets),
      AbiArray("minAmountsOut", amountWords(args.request.minAmountsOut)),
      AbiBytes("userData", args.request.userData),
      AbiWord("toInternalBalance", boolWord(args.request.toInternalBalance))>>)>>)

encodeSwap(args) ==
  encodeFunctionCall("swap", <<
    AbiTuple("singleSwap", <<
      AbiWord("poolId", args.singleSwap.poolId),
      AbiWord("kind", args.singleSwap.kind),
      AbiWord("assetIn", args.singleSwap.assetIn),
      AbiWord("assetOut", args.singleSwap.assetOut),
      AbiWord("amount", uintOf(bigNumberToUint256String(args.singleSwap.amount))),
      AbiBytes("userData", args.singleSwap.userData)>>),
    AbiTuple("funds", <<
      AbiWord("funds.sender", args.funds.sender),
      AbiWord("funds.fromInternalBalance", boolWord(args.funds.fromInternalBalance)),
      AbiWord("funds.recipient", args.funds.recipient),
      AbiWord("funds.toInternalBalance", boolWord(args.funds.toInternalBalance))>>),
    AbiWord("limit", uintOf(bigNumberToUint256String(args.limit))),
    AbiWord("deadline", args.deadline)>>)

(***************************************************************************)
(* Zap step builders.                                                      *)
(***************************************************************************)
maxAmountsInStartWord_Short(request) == 9 + Len(request.join.request.assets)
maxAmountsInStartWord(request) == 9 + Len(request.join.request.assets) + 1

getJoinPoolZap(request) ==
  Ok([target |-> vaultAddress,
      value |-> "0",
      data |-> encodeJoinPool(request.join),
      tokens |-> IF request.insertBalance
                 THEN [j \in 1..Len(request.join.request.assets) |->
                         [token |-> request.join.request.assets[j],
                          index |-> getInsertIndex(maxAmountsInStartWord(request) + (j - 1))]]
                 ELSE <<>>])

userDataWordStart_Short(request) ==
  9 + Len(request.exit.request.assets) + 1 + Len(request.exit.request.minAmountsOut)
userDataWordStart_NoLengthWords(request) ==
  9 + Len(request.exit.request.assets) + Len(request.exit.request.minAmountsOut)
userDataWordStart(request) ==
  9 + Len(request.exit.request.assets) + 1 + Len(request.exit.request.minAmountsOut) + 1

\* the switch over the decoded exit kind
exitKindTokens_Fallthrough(request, exitKind) ==
  Ok(<<[token |-> request.poolAddress, index |-> getInsertIndex(userDataWordStart(request) + 1)]>>)
exitKindTokens(request, exitKind) ==
  CASE exitKind = EXACT_BPT_IN_FOR_TOKENS_OUT ->
         Ok(<<[token |-> request.poolAddress,
               index |-> getInsertIndex(userDataWordStart(request) + 1)]>>)
    [] exitKind = EXACT_BPT_IN_FOR_ONE_TOKEN_OUT ->
         Ok(<<[token |-> request.poolAddress,
               index |-> getInsertIndex(userDataWordStart(request) + 1)]>>)
    [] exitKind = BPT_IN_FOR_EXACT_TOKENS_OUT ->
         Ok(<<[token |-> request.poolAddress,
               index |-> getInsertIndex(userDataWordStart(request) + 2)]>>)
    [] OTHER -> Err(<<"Unsupported exit kind: ", exitKind>>)

getExitPoolZapTokens(request) ==
  IF ~request.insertBalance THEN Ok(<<>>)
  ELSE LET decoded == decodeParameter(request.exit.request.userData)
       IN  IF ~decoded.ok THEN Err(<<"decodeParameter: insufficient data">>)
           ELSE exitKindTokens(request, BigNumber(decoded.value).v)

getExitPoolZap(request) ==
  LET data == encodeExitPool(request.exit)
      tokens == getExitPoolZapTokens(request)
  IN  IF tokens.status = "error" THEN tokens
      ELSE Ok([target |-> vaultAddress, value |-> "0", data |-> data, tokens |-> tokens.value])

amountInIndex_Off == getInsertIndex(7 + 5)
amountInIndex == getInsertIndex(7 + 4)

getSwapZap(request) ==
  Ok([target |-> vaultAddress,
      value |-> "0",
      data |-> encodeSwap(request.swap),
      tokens |-> IF request.insertBalance
                 THEN <<[token |-> request.swap.singleSwap.assetIn, index |-> amountInIndex]>>
                 ELSE <<>>])

(***************************************************************************)
(* Requests the zap builders are applied to.                               *)
(***************************************************************************)
AssetLists == SeqsUpTo(Tokens, MaxAssets)
AmountLists == SeqsUpTo({BN(n) : n \in Amounts}, MaxAssets)
OpaqueUserData == SeqsUpTo({5}, MaxUserDataWords)
ExitUserData ==
  {<<>>} \cup {<<k>> \o rest : k \in ExitKinds, rest \in SeqsUpTo({5}, MaxUserDataWords - 1)}

JoinPoolZapRequests ==
  [join : [poolId : PoolIds, sender : {21}, recipient : {21},
           request : [assets : AssetLists, maxAmountsIn : AmountLists,
                      userData : OpaqueUserData, fromInternalBalance : BOOLEAN]],
   insertBalance : BOOLEAN]

ExitPoolZapRequests ==
  [exit : [poolId : PoolIds, sender : {21}, recipient : {21},
           request : [assets : AssetLists, minAmountsOut : AmountLists,
                      userData : ExitUserData, toInternalBalance : BOOLEAN]],
   poolAddress : {30},
   insertBalance : BOOLEAN]

SwapZapRequests ==
  [swap : [singleSwap : [poolId : PoolIds, kind : {0, 1}, assetIn : Tokens, assetOut : Tokens,
                         amount : {BN(n) : n \in Amounts}, userData : OpaqueUserData],
           funds : [sender : Parties, fromInternalBalance : BOOLEAN,
                    recipient : Parties, toInternalBalance : BOOLEAN],
           limit : {BN(1)}, deadline : {9}],
   insertBalance : BOOLEAN]

(***************************************************************************)
(* Initial state and the zap builder actions.                              *)
(***************************************************************************)
InitClient ==
  [web3Cache |-> 0, web3 |-> <<>>,
   vaultCache |-> 0, vault |-> <<>>,
   queryCache |-> 0, query |-> <<>>,
   vaultConstructed |-> 0, queryConstructed |-> 0]

IdleProc == [pc |-> "idle"]

Init ==
  /\ client = InitClient
  /\ proc = [p \in Callers |-> IdleProc]
  /\ zap = [op |-> "none"]
  /\ check = [op |-> "none"]

GetJoinPoolZap ==
  /\ zap.op = "none"
  /\ \E request \in JoinPoolZapRequests :
       zap' = [op |-> "getJoinPoolZap", request |-> request, out |-> getJoinPoolZap(request)]
  /\ UNCHANGED <<client, proc, check>>

GetExitPoolZap ==
  /\ zap.op = "none"
  /\ \E request \in ExitPoolZapRequests :
       zap' = [op |-> "getExitPoolZap", request |-> request, out |-> getExitPoolZap(request)]
  /\ UNCHANGED <<client, proc, check>>

GetSwapZap ==
  /\ zap.op = "none"
  /\ \E request \in SwapZapRequests :
       zap' = [op |-> "getSwapZap", request |-> request, out |-> getSwapZap(request)]
  /\ UNCHANGED <<client, proc, check>>

NextZap == GetJoinPoolZap \/ GetExitPoolZap \/ GetSwapZap

SpecZap == Init /\ [][NextZap]_vars

(***************************************************************************)
(* Lazy factories.  A factory cache holds 0 (nothing yet) or the number of *)
(* the promise the factory function returned.  client.web3, client.vault   *)
(* and client.query list every promise the factory functions created.      *)
(***************************************************************************)
\* createFactory(factoryFn)(): the cached value, or the fresh one on first use
createFactory(cache, fresh) == IF cache = 0 THEN fresh ELSE cache

\* this.getWeb3(): getWeb3Instance(chain) is called on first use only
getWeb3(c) ==
  LET fresh == Len(c.web3) + 1
      got == createFactory(c.web3Cache, fresh)
  IN  IF got = fresh
      THEN [c |-> [c EXCEPT !.web3Cache = fresh, !.web3 = Append(@, [done |-> FALSE])],
            promise |-> fresh]
      ELSE [c |-> c, promise |-> got]

\* the factory function of a contract binding up to its await of getWeb3()
startVaultFactory(c) ==
  LET w == getWeb3(c)
      fresh == Len(c.vault) + 1
  IN  [c |-> [w.c EXCEPT !.vault = Append(@, [web3 |-> w.promise, done |-> FALSE, binding |-> 0])],
       promise |-> fresh]

startQueryFactory(c) ==
  LET w == getWeb3(c)
      fresh == Len(c.query) + 1
  IN  [c |-> [w.c EXCEPT !.query = Append(@, [web3 |-> w.promise, done |-> FALSE, binding |-> 0])],
       promise |-> fresh]

getVaultContract_Uncached(c) == startVaultFactory(c)
getVaultContract(c) ==
  LET fresh == Len(c.vault) + 1
      got == createFactory(c.vaultCache, fresh)
  IN  IF got = fresh
      THEN LET s == startVaultFactory(c)
           IN  [c |-> [s.c EXCEPT !.vaultCache = fresh], promise |-> fresh]
      ELSE [c |-> c, promise |-> got]

getQueryContract(c) ==
  LET fresh == Len(c.query) + 1
      got == createFactory(c.queryCache, fresh)
  IN  IF got = fresh
      THEN LET s == startQueryFactory(c)
           IN  [c |-> [s.c EXCEPT !.queryCache = fresh], promise |-> fresh]
      ELSE [c |-> c, promise |-> got]

(***************************************************************************)
(* Responses of the network calls as the handlers see them.                *)
(***************************************************************************)
Obj(fields) == [t |-> "object"] @@ fields
Truthy(value) == value.t # "undefined"
IsArray(value) == value.t = "array"
\* result?.field
Field(value, field) == IF value.t = "object" THEN value[field] ELSE Undefined
AddressStr(addr, form) == [t |-> "string", addr |-> addr, form |-> form]
\* getAddress(address): the checksummed form of the same address
getAddress(address) == AddressStr(address.addr, "checksum")

queryFunds ==
  [sender |-> ZERO_ADDRESS, fromInternalBalance |-> FALSE,
   recipient |-> ZERO_ADDRESS, toInternalBalance |-> FALSE]

(***************************************************************************)
(* getPoolTokens                                                           *)
(***************************************************************************)
getPoolTokensCall(request) == [method |-> "getPoolTokens", poolId |-> request.poolId]

getPoolTokensResult_NoLengthCheck(request, result) ==
  IF \/ ~Truthy(Field(result, "tokens"))
     \/ ~IsArray(result.tokens)
     \/ ~Truthy(result.balances)
     \/ ~IsArray(result.balances)
  THEN Err(<<"Invalid result">>)
  ELSE Ok([j \in 1..Len(result.tokens.items) |->
             [token |-> getAddress(result.tokens.items[j]),
              balance |-> IF j <= Len(result.balances.items)
                          THEN BigNumber(result.balances.items[j]) ELSE NaN]])
getPoolTokensResult(request, result) ==
  IF \/ ~Truthy(Field(result, "tokens"))
     \/ ~IsArray(result.tokens)
     \/ ~Truthy(result.balances)
     \/ ~IsArray(result.balances)
     \/ Len(result.tokens.items) # Len(result.balances.items)
  THEN Err(<<"Invalid result">>)
  ELSE Ok([j \in 1..Len(result.tokens.items) |->
             [token |-> getAddress(result.tokens.items[j]),
              balance |-> BigNumber(result.balances.items[j])]])

(***************************************************************************)
(* queryJoinPool                                                           *)
(***************************************************************************)
JoinPoolArgs_RequestWins(request) ==
  request @@ [sender |-> ZERO_ADDRESS, recipient |-> ZERO_ADDRESS]
JoinPoolArgs(request) ==
  [sender |-> ZERO_ADDRESS, recipient |-> ZERO_ADDRESS] @@ request

queryJoinPoolCall(request) ==
  LET args == JoinPoolArgs(request)
  IN  [method |-> "queryJoin", poolId |-> args.poolId,
       sender |-> args.sender, recipient |-> args.recipient,
       request |-> <<args.request.assets,
                     amountStrings(args.request.maxAmountsIn),
                     args.request.userData,
                     args.request.fromInternalBalance>>]

\* usedInput[index] in the subtraction: undefined past the end of usedInput
usedAt(usedInput, j) == IF j <= Len(usedInput) THEN usedInput[j] ELSE BigNumber(Undefined)

queryJoinPoolResult_NoValidation(request, result) ==
  LET items == IF IsArray(Field(result, "amountsIn")) THEN result.amountsIn.items ELSE <<>>
      usedInput == bigNumbers(items)
  IN  Ok([liquidity |-> BigNumber(Field(result, "bptOut")),
          usedInput |-> usedInput,
          unusedInput |-> [j \in 1..Len(request.request.maxAmountsIn) |->
                             minus(request.request.maxAmountsIn[j], usedAt(usedInput, j))]])
queryJoinPoolResult_NoSubtraction(request, result) ==
  IF \/ ~Truthy(result)
     \/ ~IsArray(result.amountsIn)
     \/ Len(result.amountsIn.items) # Len(request.request.assets)
  THEN Err(<<"Invalid result">>)
  ELSE Ok([liquidity |-> BigNumber(result.bptOut),
           usedInput |-> bigNumbers(result.amountsIn.items),
           unusedInput |-> request.request.maxAmountsIn])
queryJoinPoolResult(request, result) ==
  IF \/ ~Truthy(result)
     \/ ~IsArray(result.amountsIn)
     \/ Len(result.amountsIn.items) # Len(request.request.assets)
  THEN Err(<<"Invalid result">>)
  ELSE LET usedInput == bigNumbers(result.amountsIn.items)
       IN  Ok([liquidity |-> BigNumber(result.bptOut),
               usedInput |-> usedInput,
               unusedInput |-> [j \in 1..Len(request.request.maxAmountsIn) |->
                                  minus(request.request.maxAmountsIn[j], usedAt(usedInput, j))]])

(***************************************************************************)
(* queryExitPool                                                           *)
(***************************************************************************)
ExitPoolArgs(request) ==
  [sender |-> ZERO_ADDRESS, recipient |-> ZERO_ADDRESS] @@ request

queryExitPoolCall(request) ==
  LET args == ExitPoolArgs(request)
  IN  [method |-> "queryExit", poolId |-> args.poolId,
       sender |-> args.sender, recipient |-> args.recipient,
       request |-> <<args.request.assets,
                     amountStrings(args.request.minAmountsOut),
                     args.request.userData,
                     args.request.toInternalBalance>>]

queryExitPoolResult(request, result) ==
  IF \/ ~Truthy(result)
     \/ ~IsArray(result.amountsOut)
     \/ Len(result.amountsOut.items) # Len(request.request.assets)
  THEN Err(<<"Invalid result">>)
  ELSE Ok([liquidity |-> BigNumber(result.bptIn),
           outputs |-> bigNumbers(result.amountsOut.items)])

(***************************************************************************)
(* queryBatchSwap                                                          *)
(***************************************************************************)
QueryBatchSwapArgs(request) == [funds |-> queryFunds] @@ request

swapToWire(s) == [s EXCEPT !.amount = bigNumberToUint256String(s.amount)]

queryBatchSwapCall(request) ==
  LET args == QueryBatchSwapArgs(request)
  IN  [method |-> "queryBatchSwap", kind |-> args.kind,
       swaps |-> [j \in 1..Len(args.swaps) |-> swapToWire(args.swaps[j])],
       assets |-> args.assets,
       funds |-> args.funds]

queryBatchSwapResult(request, result) ==
  IF \/ ~Truthy(result)
     \/ ~IsArray(result)
     \/ Len(result.items) # Len(request.assets)
  THEN Err(<<"Invalid result">>)
  ELSE Ok(bigNumbers(result.items))

(***************************************************************************)
(* Requests and responses of the read operations.                          *)
(***************************************************************************)
ResponseAmounts == {Str(1), Str(MaxAmount + 1)}
ResponseAmountLists == SeqsUpTo(ResponseAmounts, MaxAssets + 1)
NotAnArray == {Undefined, Str(1)}
CarriedParties == {[sender |-> 21, recipient |-> r] : r \in Parties}
carriedFunds ==
  [sender |-> 21, fromInternalBalance |-> TRUE, recipient |-> 21, toInternalBalance |-> TRUE]
aSwap == [poolId |-> 1, assetInIndex |-> 0, assetOutIndex |-> 1, amount |-> BN(1), userData |-> <<>>]

WithOrWithout(extras, base) == base \cup {e @@ b : e \in extras, b \in base}

Requests(op) ==
  CASE op = "getPoolTokens" -> [poolId : PoolIds]
    [] op = "queryJoinPool" ->
         WithOrWithout(CarriedParties,
           [poolId : PoolIds,
            request : [assets : AssetLists, maxAmountsIn : AmountLists,
                       userData : {<<5>>}, fromInternalBalance : {FALSE}]])
    [] op = "queryExitPool" ->
         WithOrWithout(CarriedParties,
           [poolId : PoolIds,
            request : [assets : AssetLists, minAmountsOut : AmountLists,
                       userData : {<<1, 5>>}, toInternalBalance : {FALSE}]])
    [] op = "queryBatchSwap" ->
         WithOrWithout({[funds |-> carriedFunds]},
           [kind : {0}, swaps : SeqsUpTo({aSwap}, 1), assets : AssetLists])

Responses(op) ==
  CASE op = "getPoolTokens" ->
         {Undefined} \cup
         {Obj([tokens |-> t, balances |-> b]) :
            t \in NotAnArray \cup
                  {Arr(l) : l \in SeqsUpTo({AddressStr(a, f) : a \in Tokens, f \in {"lower", "checksum"}},
                                           MaxAssets)},
            b \in NotAnArray \cup {Arr(l) : l \in SeqsUpTo(ResponseAmounts, MaxAssets)}}
    [] op = "queryJoinPool" ->
         {Undefined} \cup
         {Obj([amountsIn |-> a, bptOut |-> Str(7)]) :
            a \in NotAnArray \cup {Arr(l) : l \in ResponseAmountLists}}
    [] op = "queryExitPool" ->
         {Undefined} \cup
         {Obj([amountsOut |-> a, bptIn |-> Str(7)]) :
            a \in NotAnArray \cup {Arr(l) : l \in ResponseAmountLists}}
    [] op = "queryBatchSwap" ->
         NotAnArray \cup {Arr(l) : l \in ResponseAmountLists}

\* one request per operation, and a well-formed and a missing response, for
\* the runs with several callers
FirstUseRequests(op) ==
  CASE op = "getPoolTokens" -> {[poolId |-> 1]}
    [] op = "queryJoinPool" ->
         {[poolId |-> 1, request |-> [assets |-> <<11>>, maxAmountsIn |-> <<BN(1)>>,
                                      userData |-> <<5>>, fromInternalBalance |-> FALSE]]}
    [] op = "queryExitPool" ->
         {[poolId |-> 1, request |-> [assets |-> <<11>>, minAmountsOut |-> <<BN(1)>>,
                                      userData |-> <<1, 5>>, toInternalBalance |-> FALSE]]}
    [] op = "queryBatchSwap" -> {[kind |-> 0, swaps |-> <<aSwap>>, assets |-> <<11>>]}

FirstUseResponses(op) ==
  CASE op = "getPoolTokens" ->
         {Undefined, Obj([tokens |-> Arr(<<AddressStr(11, "lower")>>), balances |-> Arr(<<Str(1)>>)])}
    [] op = "queryJoinPool" -> {Undefined, Obj([amountsIn |-> Arr(<<Str(1)>>), bptOut |-> Str(7)])}
    [] op = "queryExitPool" -> {Undefined, Obj([amountsOut |-> Arr(<<Str(1)>>), bptIn |-> Str(7)])}
    [] op = "queryBatchSwap" -> {Undefined, Arr(<<Str(1)>>)}

callOf(op, request) ==
  CASE op = "getPoolTokens" -> getPoolTokensCall(request)
    [] op = "queryJoinPool" -> queryJoinPoolCall(request)
    [] op = "queryExitPool" -> queryExitPoolCall(request)
    [] op = "queryBatchSwap" -> queryBatchSwapCall(request)

resultOf(op, request, result) ==
  CASE op = "getPoolTokens" -> getPoolTokensResult(request, result)
    [] op = "queryJoinPool" -> queryJoinPoolResult(request, result)
    [] op = "queryExitPool" -> queryExitPoolResult(request, result)
    [] op = "queryBatchSwap" -> queryBatchSwapResult(request, result)

(***************************************************************************)
(* The read operations, one step per stretch of code between two awaits.   *)
(***************************************************************************)
\* a caller at its await of the contract binding
atAwaitContract(op, request, contract, promise) ==
  [pc |-> "awaitContract", op |-> op, request |-> request,
   contract |-> contract, awaiting |-> promise, netCalls |-> 0]

GetPoolTokens(p, request) ==
  /\ proc[p].pc = "idle"
  /\ LET got == getVaultContract(client)
     IN  /\ client' = got.c
         /\ proc' = [proc EXCEPT ![p] =
                       atAwaitContract("getPoolTokens", request, "vault", got.promise)]
  /\ UNCHANGED <<zap, check>>

QueryJoinPool(p, request) ==
  /\ proc[p].pc = "idle"
  /\ LET got == getQueryContract(client)
     IN  /\ client' = got.c
         /\ proc' = [proc EXCEPT ![p] =
                       atAwaitContract("queryJoinPool", request, "query", got.promise)]
  /\ UNCHANGED <<zap, check>>

QueryExitPool(p, request) ==
  /\ proc[p].pc = "idle"
  /\ LET got == getQueryContract(client)
     IN  /\ client' = got.c
         /\ proc' = [proc EXCEPT ![p] =
                       atAwaitContract("queryExitPool", request, "query", got.promise)]
  /\ UNCHANGED <<zap, check>>

QueryBatchSwap(p, request) ==
  /\ proc[p].pc = "idle"
  /\ LET got == getVaultContract(client)
     IN  /\ client' = got.c
         /\ proc' = [proc EXCEPT ![p] =
                       atAwaitContract("queryBatchSwap", request, "vault", got.promise)]
  /\ UNCHANGED <<zap, check>>

\* the promise of getWeb3Instance resolves
ResolveWeb3 ==
  \E i \in 1..Len(client.web3) :
    /\ ~client.web3[i].done
    /\ client' = [client EXCEPT !.web3[i].done = TRUE]
    /\ UNCHANGED <<proc, zap, check>>

\* a vault factory function resumes after getWeb3(): new web3.eth.Contract(...)
ConstructVault ==
  \E i \in 1..Len(client.vault) :
    /\ ~client.vault[i].done
    /\ client.web3[client.vault[i].web3].done
    /\ client' = [client EXCEPT !.vaultConstructed = @ + 1,
                                !.vault[i].done = TRUE,
                                !.vault[i].binding = client.vaultConstructed + 1]
    /\ UNCHANGED <<proc, zap, check>>

ConstructQuery ==
  \E i \in 1..Len(client.query) :
    /\ ~client.query[i].done
    /\ client.web3[client.query[i].web3].done
    /\ client' = [client EXCEPT !.queryConstructed = @ + 1,
                                !.query[i].done = TRUE,
                                !.query[i].binding = client.queryConstructed + 1]
    /\ UNCHANGED <<proc, zap, check>>

\* the binding arrives: build the arguments and issue the network call
CallContract(p) ==
  /\ proc[p].pc = "awaitContract"
  /\ LET promise == IF proc[p].contract = "vault"
                    THEN client.vault[proc[p].awaiting]
                    ELSE client.query[proc[p].awaiting]
     IN  /\ promise.done
         /\ proc' = [proc EXCEPT ![p] =
                       [pc |-> "awaitCall", netCalls |-> proc[p].netCalls + 1,
                        binding |-> promise.binding,
                        sent |-> callOf(proc[p].op, proc[p].request)] @@ proc[p]]
  /\ UNCHANGED <<client, zap, check>>

\* the response arrives, one of responses: validate it and return or throw
Receive(p, responses) ==
  /\ proc[p].pc = "awaitCall"
  /\ \E result \in responses :
       proc' = [proc EXCEPT ![p] =
                  [pc |-> "done", result |-> result,
                   out |-> resultOf(proc[p].op, proc[p].request, result)] @@ proc[p]]
  /\ UNCHANGED <<client, zap, check>>

\* the network call rejects: the operation rejects with that error
CallFails(p) ==
  /\ proc[p].pc = "awaitCall"
  /\ proc' = [proc EXCEPT ![p] =
                [pc |-> "failed", out |-> Err(<<"call failed">>)] @@ proc[p]]
  /\ UNCHANGED <<client, zap, check>>

\* the responses a caller may be given at its await of the network call
FirstUseResponsesFor(p) ==
  IF proc[p].pc = "awaitCall" THEN FirstUseResponses(proc[p].op) ELSE {}
ResponsesFor(p) ==
  IF proc[p].pc = "awaitCall" THEN Responses(proc[p].op) ELSE {}

Next ==
  \/ \E p \in Callers, r \in FirstUseRequests("getPoolTokens") : GetPoolTokens(p, r)
  \/ \E p \in Callers, r \in FirstUseRequests("queryJoinPool") : QueryJoinPool(p, r)
  \/ \E p \in Callers, r \in FirstUseRequests("queryExitPool") : QueryExitPool(p, r)
  \/ \E p \in Callers, r \in FirstUseRequests("queryBatchSwap") : QueryBatchSwap(p, r)
  \/ ResolveWeb3
  \/ ConstructVault
  \/ ConstructQuery
  \/ \E p \in Callers : CallContract(p)
  \/ \E p \in Callers : Receive(p, FirstUseResponsesFor(p))
  \/ \E p \in Callers : CallFails(p)

Spec == Init /\ [][Next]_vars

\* one caller, every request and every response shape
NextQuery ==
  \/ \E r \in Requests("getPoolTokens") : GetPoolTokens(1, r)
  \/ \E r \in Requests("queryJoinPool") : QueryJoinPool(1, r)
  \/ \E r \in Requests("queryExitPool") : QueryExitPool(1, r)
  \/ \E r \in Requests("queryBatchSwap") : QueryBatchSwap(1, r)
  \/ ResolveWeb3
  \/ ConstructVault
  \/ ConstructQuery
  \/ CallContract(1)
  \/ Receive(1, ResponsesFor(1))
  \/ CallFails(1)

SpecQuery == Init /\ [][NextQuery]_vars

(***************************************************************************)
(* checkToken.  The label argument is <<>> when omitted.                   *)
(***************************************************************************)
\* pool.tokens.findIndex(t => t.address === token): 0-based index or -1
findIndex_SameAccount(tokens, token) ==
  IF \E j \in 1..Len(tokens) : tokens[j].address.addr = token.addr
  THEN (CHOOSE j \in 1..Len(tokens) :
          /\ tokens[j].address.addr = token.addr
          /\ \A k \in 1..(j - 1) : tokens[k].address.addr # token.addr) - 1
  ELSE -1
findIndex(tokens, token) ==
  IF \E j \in 1..Len(tokens) : tokens[j].address = token
  THEN (CHOOSE j \in 1..Len(tokens) :
          /\ tokens[j].address = token
          /\ \A k \in 1..(j - 1) : tokens[k].address # token) - 1
  ELSE -1

\* label: string = 'token'
labelOrDefault(label) == IF label = <<>> THEN "token" ELSE label[1]

checkToken(pool, token, label) ==
  LET index == findIndex(pool.tokens, token)
  IN  IF index = -1
      THEN Err(<<labelOrDefault(label), " must be a pool token">>)
      ELSE Ok(Undefined)

AddressStrings == {AddressStr(a, f) : a \in Tokens, f \in {"lower", "checksum"}}
Pools ==
  {[tokens |-> [j \in 1..Len(l) |-> [address |-> l[j]]]] : l \in SeqsUpTo(AddressStrings, MaxAssets)}
Labels == {<<>>, <<"asset">>, <<"token">>}

\* one checkToken call; pool is the caller's object before, poolAfter after
CheckToken ==
  /\ check.op = "none"
  /\ \E pool \in Pools, token \in AddressStrings, label \in Labels :
       check' = [op |-> "checkToken", pool |-> pool, token |-> token, label |-> label,
                 poolAfter |-> pool, out |-> checkToken(pool, token, label)]
  /\ UNCHANGED <<client, proc, zap>>

NextCheck == CheckToken

SpecCheck == Init /\ [][NextCheck]_vars

(***************************************************************************)
(* Properties of the zap step builders (checked under SpecZap).            *)
(***************************************************************************)
Min(a, b) == IF a < b THEN a ELSE b
byteOfWord(w) == 4 + 32 * w

\* C1: getJoinPoolZap with N assets and insertBalance enabled returns exactly
\* N token insertions; insertion i names assets[i] and its index is the byte
\* position of word 9 + N + 1 + i counted after the 4-byte selector.  In the
\* encoded joinPool call the head is words 0-7, the assets length is word 8,
\* the assets are words 9..9+N-1, the maxAmountsIn length is word 9+N, and
\* every maxAmountsIn[i] the request has sits at the index of insertion i.
C1_JoinInsertionOffsets ==
  (zap.op = "getJoinPoolZap" /\ zap.request.insertBalance) =>
    LET assets == zap.request.join.request.assets
        N == Len(assets)
        M == Len(zap.request.join.request.maxAmountsIn)
    IN  /\ zap.out.status = "ok"
        /\ Len(zap.out.value.tokens) = N
        /\ \A j \in 1..N :
             /\ zap.out.value.tokens[j].token = assets[j]
             /\ zap.out.value.tokens[j].index = byteOfWord(9 + N + 1 + (j - 1))
        /\ \A w \in 0..7 : ~HoldsAt(zap.out.value.data, byteOfWord(w), "assets", "length", 0)
        /\ HoldsAt(zap.out.value.data, byteOfWord(8), "assets", "length", 0)
        /\ \A j \in 1..N : HoldsAt(zap.out.value.data, byteOfWord(9 + (j - 1)), "assets", "value", j - 1)
        /\ HoldsAt(zap.out.value.data, byteOfWord(9 + N), "maxAmountsIn", "length", 0)
        /\ \A j \in 1..Min(N, M) :
             HoldsAt(zap.out.value.data, zap.out.value.tokens[j].index, "maxAmountsIn", "value", j - 1)

C1_Witness ==
  /\ zap.op = "getJoinPoolZap"
  /\ zap.request.insertBalance
  /\ Len(zap.request.join.request.assets) = 2
  /\ Len(zap.request.join.request.maxAmountsIn) = 2
  /\ zap.out.status = "ok"
  /\ Len(zap.out.value.tokens) = 2
  /\ zap.out.value.tokens[2].index = 420

SupportedExitKinds ==
  {EXACT_BPT_IN_FOR_TOKENS_OUT, EXACT_BPT_IN_FOR_ONE_TOKEN_OUT, BPT_IN_FOR_EXACT_TOKENS_OUT}

ExitCallWithKind ==
  /\ zap.op = "getExitPoolZap"
  /\ Len(zap.request.exit.request.userData) >= 1

\* C2: getExitPoolZap with insertBalance enabled and a supported exit kind
\* returns exactly one token insertion naming the pool address; its index is
\* the byte position of word userDataStart + 1 for EXACT_BPT_IN_FOR_TOKENS_OUT
\* and EXACT_BPT_IN_FOR_ONE_TOKEN_OUT and of word userDataStart + 2 for
\* BPT_IN_FOR_EXACT_TOKENS_OUT, where userDataStart = 9 + assets.length + 1 +
\* minAmountsOut.length + 1 is the word of the encoded exitPool call that
\* holds word 0 of userData.
C2_ExitInsertionOffset ==
  (ExitCallWithKind /\ zap.request.insertBalance
     /\ zap.request.exit.request.userData[1] \in SupportedExitKinds) =>
    LET r == zap.request.exit.request
        kind == r.userData[1]
        userDataStart == 9 + Len(r.assets) + 1 + Len(r.minAmountsOut) + 1
        delta == IF kind = BPT_IN_FOR_EXACT_TOKENS_OUT THEN 2 ELSE 1
    IN  /\ zap.out.status = "ok"
        /\ Len(zap.out.value.tokens) = 1
        /\ zap.out.value.tokens[1].token = zap.request.poolAddress
        /\ zap.out.value.tokens[1].index = byteOfWord(userDataStart + delta)
        /\ HoldsAt(zap.out.value.data, byteOfWord(userDataStart), "userData", "value", 0)
        /\ Len(r.userData) > delta =>
             HoldsAt(zap.out.value.data, zap.out.value.tokens[1].index, "userData", "value", delta)

C2_Witness ==
  /\ ExitCallWithKind
  /\ zap.request.insertBalance
  /\ zap.request.exit.request.userData[1] = BPT_IN_FOR_EXACT_TOKENS_OUT
  /\ Len(zap.request.exit.request.userData) = 3
  /\ Len(zap.request.exit.request.assets) = 2
  /\ Len(zap.request.exit.request.minAmountsOut) = 1
  /\ zap.out.status = "ok"
  /\ zap.out.value.tokens[1].index = byteOfWord(16)

UnsupportedExitCall ==
  /\ ExitCallWithKind
  /\ zap.request.exit.request.userData[1] \notin SupportedExitKinds

FailsUnsupportedExitKind ==
  /\ zap.out.status = "error"
  /\ zap.out.error = <<"Unsupported exit kind: ", zap.request.exit.request.userData[1]>>

\* C3 as claimed: a getExitPoolZap request whose exit kind is not one of the
\* three supported kinds fails with the unsupported-exit-kind error whatever
\* its other fields, the insertBalance flag included.
C3_UnsupportedKindAlwaysFails ==
  UnsupportedExitCall => FailsUnsupportedExitKind

\* C3 amended: a getExitPoolZap request with insertBalance enabled whose exit
\* kind is not one of the three supported kinds fails with the
\* unsupported-exit-kind error and returns no ZapStep, whatever its other
\* fields; with insertBalance disabled the exit kind is not examined and the
\* operation returns a ZapStep without token insertions.
C3_UnsupportedKindFailsWhenInserting ==
  UnsupportedExitCall =>
    IF zap.request.insertBalance
    THEN FailsUnsupportedExitKind
    ELSE zap.out.status = "ok" /\ zap.out.value.tokens = <<>>

C3_Witness ==
  /\ UnsupportedExitCall
  /\ zap.request.insertBalance
  /\ zap.request.exit.request.userData[1] = 99
  /\ zap.out.status = "error"

\* C9: getSwapZap returns no token insertion when insertBalance is false and
\* otherwise exactly one, naming singleSwap.assetIn, whose index is the byte
\* position of word 11 whatever the request; in the encoded swap call word 0
\* is the offset of the singleSwap struct (7 words), words 1-4 are funds, word
\* 5 is limit, word 6 is deadline, the struct starts at word 7 and word 11
\* holds singleSwap.amount.
C9_SwapInsertionOffset ==
  (zap.op = "getSwapZap") =>
    /\ zap.out.status = "ok"
    /\ ~zap.request.insertBalance => zap.out.value.tokens = <<>>
    /\ zap.request.insertBalance =>
         /\ Len(zap.out.value.tokens) = 1
         /\ zap.out.value.tokens[1].token = zap.request.swap.singleSwap.assetIn
         /\ zap.out.value.tokens[1].index = byteOfWord(7 + 4)
         /\ HoldsAt(zap.out.value.data, zap.out.value.tokens[1].index, "amount", "value", 0)
    /\ HoldsAt(zap.out.value.data, byteOfWord(0), "singleSwap", "offset", 0)
    /\ zap.out.value.data.words[1].v = 7 * 32
    /\ HoldsAt(zap.out.value.data, byteOfWord(1), "funds.sender", "value", 0)
    /\ HoldsAt(zap.out.value.data, byteOfWord(4), "funds.toInternalBalance", "value", 0)
    /\ HoldsAt(zap.out.value.data, byteOfWord(5), "limit", "value", 0)
    /\ HoldsAt(zap.out.value.data, byteOfWord(6), "deadline", "value", 0)
    /\ HoldsAt(zap.out.value.data, byteOfWord(7), "poolId", "value", 0)

C9_Witness ==
  /\ zap.op = "getSwapZap"
  /\ zap.request.insertBalance
  /\ Len(zap.request.swap.singleSwap.userData) = 2
  /\ zap.out.status = "ok"
  /\ zap.out.value.tokens = <<[token |-> zap.request.swap.singleSwap.assetIn, index |-> 356]>>

(***************************************************************************)
(* Properties of the read operations (checked under SpecQuery).            *)
(***************************************************************************)
Returned(p, op) == proc[p].pc = "done" /\ proc[p].op = op
Called(p) == proc[p].pc \in {"awaitCall", "done", "failed"}
QueryOps == {"queryJoinPool", "queryExitPool", "queryBatchSwap"}

\* the amounts array of a response and the assets of a request, per operation
amountsOfResponse(op, result) ==
  CASE op = "queryJoinPool" -> Field(result, "amountsIn")
    [] op = "queryExitPool" -> Field(result, "amountsOut")
    [] op = "queryBatchSwap" -> result
assetsOfRequest(op, request) ==
  IF op = "queryBatchSwap" THEN request.assets ELSE request.request.assets

MalformedResponse(op, request, result) ==
  \/ result.t = "undefined"
  \/ amountsOfResponse(op, result).t # "array"
  \/ Len(amountsOfResponse(op, result).items) # Len(assetsOfRequest(op, request))

\* C4: whenever queryJoinPool, queryExitPool or queryBatchSwap is given a
\* response that is missing, whose amounts are not an array, or whose amounts
\* differ in length from the request's assets, the operation fails with
\* 'Invalid result', returns no result, and has made exactly one network call.
C4_MalformedResponseIsTerminal ==
  \A p \in Callers :
    (proc[p].pc = "done" /\ proc[p].op \in QueryOps
       /\ MalformedResponse(proc[p].op, proc[p].request, proc[p].result)) =>
      /\ proc[p].out = Err(<<"Invalid result">>)
      /\ proc[p].netCalls = 1

C4_Witness ==
  /\ Returned(1, "queryExitPool")
  /\ proc[1].result.t = "object"
  /\ proc[1].result.amountsOut.t = "array"
  /\ Len(proc[1].result.amountsOut.items) = 1
  /\ Len(proc[1].request.request.assets) = 2
  /\ proc[1].out.status = "error"
  /\ proc[1].netCalls = 1

\* C5 as claimed: every result of queryJoinPool has one usedInput and one
\* unusedInput entry per request asset, usedInput[i] is the response's
\* amountsIn[i], and usedInput[i] + unusedInput[i] = maxAmountsIn[i].
C5_UsedPlusUnusedPerAsset ==
  \A p \in Callers :
    (Returned(p, "queryJoinPool") /\ proc[p].out.status = "ok") =>
      LET N == Len(proc[p].request.request.assets)
          res == proc[p].out.value
      IN  /\ Len(res.usedInput) = N
          /\ Len(res.unusedInput) = N
          /\ Len(proc[p].request.request.maxAmountsIn) = N
          /\ \A j \in 1..N :
               /\ res.usedInput[j] = BN(proc[p].result.amountsIn.items[j].n)
               /\ ~res.unusedInput[j].nan
               /\ res.usedInput[j].v + res.unusedInput[j].v
                    = proc[p].request.request.maxAmountsIn[j].v

\* C5 amended: every result of queryJoinPool has one usedInput entry per
\* request asset, equal to the response's amountsIn[i], and one unusedInput
\* entry per entry of the request's maxAmountsIn; usedInput[i] +
\* unusedInput[i] = maxAmountsIn[i] for every index i that both have (every
\* asset index when maxAmountsIn has one entry per asset), and the
\* unusedInput entries past the asset count are NaN.
C5_UsedPlusUnusedWhereBothExist ==
  \A p \in Callers :
    (Returned(p, "queryJoinPool") /\ proc[p].out.status = "ok") =>
      LET N == Len(proc[p].request.request.assets)
          M == Len(proc[p].request.request.maxAmountsIn)
          res == proc[p].out.value
      IN  /\ Len(res.usedInput) = N
          /\ Len(res.unusedInput) = M
          /\ \A j \in 1..N : res.usedInput[j] = BN(proc[p].result.amountsIn.items[j].n)
          /\ \A j \in 1..Min(N, M) :
               /\ ~res.unusedInput[j].nan
               /\ res.usedInput[j].v + res.unusedInput[j].v
                    = proc[p].request.request.maxAmountsIn[j].v
          /\ \A j \in (N + 1)..M : res.unusedInput[j].nan

C5_Witness ==
  /\ Returned(1, "queryJoinPool")
  /\ proc[1].out.status = "ok"
  /\ Len(proc[1].request.request.assets) = 2
  /\ proc[1].request.request.maxAmountsIn = <<BN(2), BN(1)>>
  /\ proc[1].out.value.usedInput = <<BN(1), BN(1)>>
  /\ proc[1].out.value.unusedInput = <<BN(1), BN(0)>>

\* C6: queryJoinPool never returns a result with a negative unusedInput[i];
\* when the response's amountsIn[i] exceeds the request's maxAmountsIn[i] the
\* operation fails instead of returning a result.
C6_NoNegativeUnusedInput ==
  \A p \in Callers :
    Returned(p, "queryJoinPool") =>
      /\ proc[p].out.status = "ok" =>
           \A j \in 1..Len(proc[p].out.value.unusedInput) :
             proc[p].out.value.unusedInput[j].nan \/ proc[p].out.value.unusedInput[j].v >= 0
      /\ (/\ ~MalformedResponse("queryJoinPool", proc[p].request, proc[p].result)
          /\ \E j \in 1..Min(Len(proc[p].request.request.assets),
                             Len(proc[p].request.request.maxAmountsIn)) :
               proc[p].result.amountsIn.items[j].n > proc[p].request.request.maxAmountsIn[j].v)
           => proc[p].out.status = "error"

BadPoolTokensResponse(result) ==
  \/ result.t = "undefined"
  \/ result.tokens.t # "array"
  \/ result.balances.t # "array"
  \/ Len(result.tokens.items) # Len(result.balances.items)

\* C8: getPoolTokens fails with 'Invalid result' whenever the response is
\* missing, tokens or balances is absent or not an array, or the two differ
\* in length; otherwise it returns one entry per response token, in response
\* order, entry i pairing the checksummed tokens[i] with balances[i] (two
\* empty arrays give an empty result).
C8_PoolTokensResult ==
  \A p \in Callers :
    Returned(p, "getPoolTokens") =>
      IF BadPoolTokensResponse(proc[p].result)
      THEN proc[p].out = Err(<<"Invalid result">>)
      ELSE /\ proc[p].out.status = "ok"
           /\ Len(proc[p].out.value) = Len(proc[p].result.tokens.items)
           /\ \A j \in 1..Len(proc[p].out.value) :
                /\ proc[p].out.value[j].token.addr = proc[p].result.tokens.items[j].addr
                /\ proc[p].out.value[j].token.form = "checksum"
                /\ proc[p].out.value[j].balance = BN(proc[p].result.balances.items[j].n)

C8_Witness ==
  /\ Returned(1, "getPoolTokens")
  /\ proc[1].result.t = "object"
  /\ proc[1].result.tokens = Arr(<<AddressStr(12, "lower"), AddressStr(11, "checksum")>>)
  /\ proc[1].result.balances = Arr(<<Str(MaxAmount + 1), Str(1)>>)
  /\ proc[1].out.status = "ok"
  /\ proc[1].out.value[1] = [token |-> AddressStr(12, "checksum"), balance |-> BN(MaxAmount + 1)]

\* C10: the simulation calls never carry the request's fund parties:
\* queryJoinPool and queryExitPool send the zero address as sender and as
\* recipient whatever sender or recipient the request object carries, and
\* queryBatchSwap sends the fixed funds (zero sender and recipient, both
\* internal-balance flags false) whatever funds the request object carries.
C10_QueriesSendZeroParties ==
  \A p \in Callers :
    Called(p) =>
      /\ proc[p].op \in {"queryJoinPool", "queryExitPool"} =>
           proc[p].sent.sender = 0 /\ proc[p].sent.recipient = 0
      /\ proc[p].op = "queryBatchSwap" =>
           proc[p].sent.funds = [sender |-> 0, fromInternalBalance |-> FALSE,
                                 recipient |-> 0, toInternalBalance |-> FALSE]

C10_Witness ==
  /\ Called(1)
  /\ proc[1].op = "queryJoinPool"
  /\ "sender" \in DOMAIN proc[1].request
  /\ proc[1].request.sender = 21
  /\ proc[1].request.recipient = 21
  /\ proc[1].sent.sender = 0
  /\ proc[1].sent.recipient = 0

(***************************************************************************)
(* Properties of the lazy factories (checked under Spec).                  *)
(***************************************************************************)
HoldsBinding(p, contract) == Called(p) /\ proc[p].contract = contract

\* C7: under any interleaving of concurrent first-use operations on one
\* client the chain connection is created at most once, the vault binding
\* and the query-helper binding are each constructed at most once, and all
\* callers of a contract await the same promise and receive the same binding.
C7_SingleInitialization ==
  /\ Len(client.web3) <= 1
  /\ Len(client.vault) <= 1
  /\ Len(client.query) <= 1
  /\ client.vaultConstructed <= 1
  /\ client.queryConstructed <= 1
  /\ \A p, q \in Callers :
       /\ (proc[p].pc # "idle" /\ proc[q].pc # "idle" /\ proc[p].contract = proc[q].contract)
            => proc[p].awaiting = proc[q].awaiting
       /\ \A contract \in {"vault", "query"} :
            (HoldsBinding(p, contract) /\ HoldsBinding(q, contract))
              => proc[p].binding = proc[q].binding

C7_Witness ==
  /\ proc[1].pc = "awaitCall" /\ proc[1].op = "getPoolTokens"
  /\ proc[2].pc = "awaitCall" /\ proc[2].op = "queryBatchSwap"
  /\ proc[3].pc = "awaitCall" /\ proc[3].op = "queryJoinPool"
  /\ proc[1].binding = 1 /\ proc[2].binding = 1 /\ proc[3].binding = 1
  /\ Len(client.web3) = 1
  /\ client.vaultConstructed = 1
  /\ client.queryConstructed = 1

(***************************************************************************)
(* Properties of checkToken (checked under SpecCheck).                     *)
(***************************************************************************)
NotAPoolToken == \A j \in 1..Len(check.pool.tokens) : check.pool.tokens[j].address # check.token

\* C11: checkToken(pool, token, label) fails with '<label> must be a pool
\* token' (label 'token' when omitted) if and only if no entry of pool.tokens
\* has an address equal to token; otherwise it returns silently; either way
\* the pool and the client are left as they were.
C11_CheckTokenFailsIffAbsent ==
  (check.op = "checkToken") =>
    /\ (check.out.status = "error") <=> NotAPoolToken
    /\ NotAPoolToken =>
         check.out.error = <<IF check.label = <<>> THEN "token" ELSE check.label[1],
                             " must be a pool token">>
    /\ ~NotAPoolToken => check.out = Ok(Undefined)
    /\ check.poolAfter = check.pool
    /\ client = InitClient

C11_Witness ==
  /\ check.op = "checkToken"
  /\ check.label = <<>>
  /\ check.token = AddressStr(11, "checksum")
  /\ Len(check.pool.tokens) = 2
  /\ check.pool.tokens[1].address = AddressStr(11, "lower")
  /\ check.pool.tokens[2].address = AddressStr(12, "checksum")
  /\ check.out = Err(<<"token", " must be a pool token">>)

(***************************************************************************)
(* Token insertions against the length of the call data (under SpecZap).   *)
(***************************************************************************)
StepReturned == zap.op # "none" /\ zap.out.status = "ok"

\* the insertion starts a 32-byte word after the selector
WordAligned(index) == index >= 4 /\ (index - 4) % 32 = 0
\* the 32 bytes at the insertion lie inside the call data
InsideData(data, index) == index + 32 <= dataLength(data)

DistinctIndexes(tokens) ==
  \A j, k \in 1..Len(tokens) : j # k => tokens[j].index # tokens[k].index

AllInsideData ==
  \A j \in 1..Len(zap.out.value.tokens) :
    InsideData(zap.out.value.data, zap.out.value.tokens[j].index)

\* C12 as claimed: in every ZapStep returned by getJoinPoolZap, getExitPoolZap
\* or getSwapZap every insertion index addresses a whole 32-byte word that
\* lies entirely inside the call data (index + 32 <= length of data) and the
\* indexes of one step are pairwise distinct, for every accepted request.
C12_InsertionsInsideData ==
  StepReturned =>
    /\ \A j \in 1..Len(zap.out.value.tokens) :
         /\ WordAligned(zap.out.value.tokens[j].index)
         /\ InsideData(zap.out.value.data, zap.out.value.tokens[j].index)
    /\ DistinctIndexes(zap.out.value.tokens)

\* C12 amended: in every returned ZapStep every insertion index starts a
\* 32-byte word after the selector and the indexes of one step are pairwise
\* distinct.  The word lies inside the call data for every getSwapZap step;
\* for a getJoinPoolZap step with insertions exactly when assets.length <=
\* 1 + maxAmountsIn.length + the number of userData words; for a
\* getExitPoolZap step with an insertion exactly when userData has at least
\* 2 words (3 for BPT_IN_FOR_EXACT_TOKENS_OUT).
C12_InsertionsInsideDataWhenRequestFits ==
  StepReturned =>
    /\ \A j \in 1..Len(zap.out.value.tokens) : WordAligned(zap.out.value.tokens[j].index)
    /\ DistinctIndexes(zap.out.value.tokens)
    /\ zap.op = "getSwapZap" => AllInsideData
    /\ (zap.op = "getJoinPoolZap" /\ zap.request.insertBalance) =>
         (AllInsideData <=>
            Len(zap.request.join.request.assets)
              <= 1 + Len(zap.request.join.request.maxAmountsIn)
                   + Len(zap.request.join.request.userData))
    /\ (zap.op = "getExitPoolZap" /\ zap.request.insertBalance) =>
         (AllInsideData <=>
            Len(zap.request.exit.request.userData)
              >= (IF zap.request.exit.request.userData[1] = BPT_IN_FOR_EXACT_TOKENS_OUT
                  THEN 3 ELSE 2))
    /\ ~zap.request.insertBalance => zap.out.value.tokens = <<>>

C12_Witness ==
  /\ StepReturned
  /\ zap.op = "getJoinPoolZap"
  /\ zap.request.insertBalance
  /\ Len(zap.request.join.request.assets) = 2
  /\ Len(zap.request.join.request.maxAmountsIn) = 1
  /\ Len(zap.request.join.request.userData) = 0
  /\ Len(zap.out.value.tokens) = 2
  /\ zap.out.value.tokens[2].index + 32 = dataLength(zap.out.value.data)

====
